---- MODULE Spec2Model ----
(***************************************************************************)
(* GameTracker (main.py): a polling loop that watches the foreground       *)
(* window title, classifies it by keyword, accumulates per-day, per-title  *)
(* seconds in self.usage and writes them to game_time.json.                *)
(*                                                                         *)
(* Representation.                                                         *)
(*   - A title is a sequence of one-character strings.                     *)
(*   - A Python value that may be None is a record [some, val].            *)
(*   - A date ("%Y-%m-%d") is the day number of the clock.                 *)
(*   - A JSON leaf is [t |-> "num", v |-> n] or [t |-> "str", v |-> 0]     *)
(*     (a value that is not a number).                                     *)
(*   - self.usage is a function date -> (title -> leaf) with partial       *)
(*     domains; the file is a record [kind, entries] whose entries keep    *)
(*     the order of the document.                                          *)
(*                                                                         *)
(* Scope.                                                                  *)
(*   - The clock is in whole seconds and advances in time.sleep only, so   *)
(*     ticks are exactly 15 seconds apart; an interrupt may cut a sleep.   *)
(*   - One KeyboardInterrupt is delivered per run, at any position of      *)
(*     __init__ or track.                                                  *)
(*   - pre and hist are history variables: no action reads them to decide  *)
(*     what the program does.                                              *)
(***************************************************************************)
EXTENDS Integers, Sequences, FiniteSets, TLC

VARIABLES
    pc,            \* position of the process in __init__/track/shutdown
    clock,         \* the wall clock, in seconds (time.time())
    disk,          \* content of game_time.json
    usage,         \* self.usage
    current_game,  \* self.current_game
    start_time,    \* self.start_time
    window,        \* local current_window of track
    now,           \* local now of track
    last_save,     \* local last_save of track
    interrupted,   \* a KeyboardInterrupt has been delivered
    pre,           \* history: the session and store an operation started from
    hist           \* history: counters of records, shutdown runs and flushes

vars == <<pc, clock, disk, usage, current_game, start_time, window, now,
          last_save, interrupted, pre, hist>>

-----------------------------------------------------------------------------
(* Bounds of the model *)

\* the clock at process start: 30 s before local midnight of day 1
StartClock == 86370
\* the loop is explored for this many seconds after process start
Horizon == 330

\* a run opens at most this many sessions, all of them in its first
\* OpenUntil seconds; an open session may last to the horizon
MaxOpens == 2
OpenUntil == 75
\* a document of the load specification has at most this many dates, and a
\* date at most this many titles
MaxDates == 2
MaxItems == 2
\* the titles of the case specification have at most this many characters
MaxTitleLen == 4
\* seconds of a time.sleep(15) that have passed when an interrupt ends it
SleepCut == 7

-----------------------------------------------------------------------------
(* Program constants *)

DayLen == 86400
SleepSecs == 15
SaveEvery == 300

-----------------------------------------------------------------------------
(* Python values *)

None == [some |-> FALSE, val |-> 0]
NoTitle == [some |-> FALSE, val |-> <<>>]
Some(x) == [some |-> TRUE, val |-> x]

\* truth value of an Optional[float] and of an Optional[str]
TruthyNum(o) == o.some /\ o.val # 0
TruthyStr(o) == o.some /\ o.val # <<>>

Num(n) == [t |-> "num", v |-> n]
NonNum == [t |-> "str", v |-> 0]

EmptyUsage == [d \in {} |-> 0]

-----------------------------------------------------------------------------
(* Classifier: game_keywords and is_game *)

game_keywords ==
    { <<"s","t","e","a","m">>, <<"h","l","2">>, <<"c","s","g","o">>,
      <<"d","o","t","a">>, <<"f","o","r","t","n","i","t","e">>,
      <<"o","v","e","r","w","a","t","c","h">>,
      <<"v","a","l","o","r","a","n","t">>, <<"l","e","a","g","u","e">>,
      <<"m","i","n","e","c","r","a","f","t">>,
      <<"b","a","t","t","l","e",".","n","e","t">>,
      <<"o","r","i","g","i","n">>, <<"u","b","i","s","o","f","t">>,
      <<"r","i","o","t">>, <<"e","a">>, <<"w","o","w">>,
      <<"d","i","a","b","l","o">>, <<"e","l","d","e","n">>,
      <<"g","t","a">>, <<"r","o","c","k","s","t","a","r">>,
      <<"w","a","r","f","r","a","m","e">>,
      <<"d","e","s","t","i","n","y">>, <<"a","p","e","x">>,
      <<"f","a","l","l","o","u","t">>, <<"s","k","y","r","i","m">> }

\* str.lower() on one character of the modelled alphabet; "dotless_i" is
\* U+0131, which is lower case already and stays as it is
LowerChar(c) ==
    CASE c = "A" -> <<"a">>
      [] c = "D" -> <<"d">>
      [] c = "E" -> <<"e">>
      [] c = "I" -> <<"i">>
      [] c = "R" -> <<"r">>
      [] c = "M" -> <<"m">>
      [] c = "N" -> <<"n">>
      [] c = "O" -> <<"o">>
      [] c = "S" -> <<"s">>
      [] c = "T" -> <<"t">>
      [] OTHER -> <<c>>

\* str.upper() on one character of the modelled alphabet; the upper case
\* of U+0131 is the ASCII letter I
UpperChar(c) ==
    CASE c = "a" -> <<"A">>
      [] c = "d" -> <<"D">>
      [] c = "e" -> <<"E">>
      [] c = "i" -> <<"I">>
      [] c = "m" -> <<"M">>
      [] c = "n" -> <<"N">>
      [] c = "o" -> <<"O">>
      [] c = "r" -> <<"R">>
      [] c = "s" -> <<"S">>
      [] c = "t" -> <<"T">>
      [] c = "dotless_i" -> <<"I">>
      [] OTHER -> <<c>>

RECURSIVE Upper(_)
Upper(s) == IF s = <<>> THEN <<>> ELSE UpperChar(Head(s)) \o Upper(Tail(s))

RECURSIVE Lower(_)
Lower(s) == IF s = <<>> THEN <<>> ELSE LowerChar(Head(s)) \o Lower(Tail(s))

\* keyword in window_lower
Contains(s, k) ==
    \E i \in 1..(Len(s) - Len(k) + 1) : SubSeq(s, i, i + Len(k) - 1) = k

\* a classifier that accepts every non-empty title
is_game_any(window_title) == TruthyStr(window_title)

is_game(window_title) ==
    IF ~TruthyStr(window_title)
    THEN FALSE
    ELSE LET window_lower == Lower(window_title.val)
         IN  \E keyword \in game_keywords : Contains(window_lower, keyword)

\* titles the foreground window takes in the model
TitleSteam == <<"S","t","e","a","m">>
TitleDota  == <<"D","o","t","a">>
TitleNote  == <<"N","o","t","e">>

\* results of get_active_window: a failed query, an empty title, two games
\* and a window that is no game
Observations ==
    { NoTitle, Some(<<>>), Some(TitleSteam), Some(TitleDota), Some(TitleNote) }

-----------------------------------------------------------------------------
(* The store: self.usage and game_time.json *)

\* time.strftime("%Y-%m-%d") of the clock
DateOf(t) == t \div DayLen

HasLeaf(u, d, g) == d \in DOMAIN u /\ g \in DOMAIN u[d]

\* what self.usage[d][g] reads (defaultdict(float) gives 0.0 when absent)
Leaf(u, d, g) == IF HasLeaf(u, d, g) THEN u[d][g] ELSE Num(0)

\* an assignment that replaces the whole date entry by the one leaf
SetLeaf_replace(u, d, g, leaf) ==
    [x \in DOMAIN u \cup {d} |-> IF x = d THEN [y \in {g} |-> leaf] ELSE u[x]]

\* self.usage[d][g] = leaf
SetLeaf(u, d, g, leaf) ==
    LET old == IF d \in DOMAIN u THEN u[d] ELSE EmptyUsage
        new == [y \in DOMAIN old \cup {g} |-> IF y = g THEN leaf ELSE old[y]]
    IN  [x \in DOMAIN u \cup {d} |-> IF x = d THEN new ELSE u[x]]

\* self.usage[date][game] += duration raises TypeError on a non-number leaf
CanAdd(u, d, g) == Leaf(u, d, g).t = "num"

\* a record filed under the date at which the session was opened
record_session_startdate(u, t, game, duration) ==
    LET date == DateOf(t - duration)
    IN  SetLeaf(u, date, game, Num(Leaf(u, date, game).v + duration))

\* a record that assigns the duration to the leaf
record_session_overwrite(u, t, game, duration) ==
    SetLeaf(u, DateOf(t), game, Num(duration))

\* record_session(game, duration) at clock t
record_session(u, t, game, duration) ==
    LET date == DateOf(t)
    IN  SetLeaf(u, date, game, Num(Leaf(u, date, game).v + duration))

MissingFile == [kind |-> "missing", entries |-> <<>>]
\* text json.load rejects: an empty or truncated file included
GarbageFile == [kind |-> "garbage", entries |-> <<>>]
\* a JSON document whose top level is not an object
ArrayFile   == [kind |-> "array", entries |-> <<>>]
ObjectFile(es) == [kind |-> "object", entries |-> es]

\* one "date": value member of the document; obj: the value is an object
DateEntry(d, items) == [date |-> d, obj |-> TRUE, items |-> items]
BadEntry(d) == [date |-> d, obj |-> FALSE, items |-> <<>>]
Item(g, leaf) == [game |-> g, val |-> leaf]

RECURSIVE LoadItems(_, _, _)
\* for game, duration in games.items(): self.usage[date][game] = duration
LoadItems(u, d, items) ==
    IF items = <<>> THEN u
    ELSE LoadItems(SetLeaf(u, d, Head(items).game, Head(items).val), d, Tail(items))

RECURSIVE LoadEntries(_, _)
\* for date, games in data.items(): games.items() raises on a non-object
\* and the except clause ends the load with what was assigned so far
LoadEntries(u, es) ==
    IF es = <<>> THEN u
    ELSE IF ~Head(es).obj THEN u
    ELSE LoadEntries(LoadItems(u, Head(es).date, Head(es).items), Tail(es))

\* load_data into the store u
load_data(u, file) ==
    IF file.kind = "object" THEN LoadEntries(u, file.entries) ELSE u

RECURSIVE SetToSeq(_)
SetToSeq(S) ==
    IF S = {} THEN <<>>
    ELSE LET x == CHOOSE y \in S : TRUE IN <<x>> \o SetToSeq(S \ {x})

\* json.dump(self.usage): every date key with every leaf under it
Dump(u) ==
    LET dates == SetToSeq(DOMAIN u)
        items(d) == LET gs == SetToSeq(DOMAIN u[d])
                    IN  [i \in 1..Len(gs) |-> Item(gs[i], u[d][gs[i]])]
    IN  ObjectFile([i \in 1..Len(dates) |-> DateEntry(dates[i], items(dates[i]))])

-----------------------------------------------------------------------------
(* History variables *)

\* the run of ticks on which one game title has been observed: its title,
\* the time of its first tick, the store and the number of record_session
\* calls at that tick, and whether the tick before it observed no game
NoRun == [title |-> NoTitle, since |-> 0, usage |-> EmptyUsage, nrec |-> 0,
          fromIdle |-> FALSE]

NoPre == [set |-> FALSE, game |-> NoTitle, start |-> None,
          usage |-> EmptyUsage, now |-> None, run |-> NoRun]
\* the session, the store, the previous now and the observed run as an
\* operation finds them
Snapshot == [set |-> TRUE, game |-> current_game, start |-> start_time,
             usage |-> usage, now |-> now, run |-> hist.run]

\* opens: sessions opened; nrec: record_session calls; recs: those made
\* since start_time was last assigned; owner: the title start_time was
\* assigned for; misfiled: a record was made under another title than owner;
\* shutdowns, sdSaves, sdWritten: runs of shutdown, its save_data calls and
\* whether its json.dump completed; file0: the file found at process start;
\* t0: the clock at process start; psFailed: a periodic save_data call has
\* failed; flushed: the store written by the last json.dump that completed;
\* verdicts: the results of the is_game calls made on one title, its lower
\* case and its upper case
NoHist == [opens |-> 0, nrec |-> 0, recs |-> 0, owner |-> NoTitle,
           misfiled |-> FALSE, shutdowns |-> 0, sdSaves |-> 0,
           sdWritten |-> FALSE, file0 |-> MissingFile, run |-> NoRun,
           t0 |-> 0, psFailed |-> FALSE,
           flushed |-> [done |-> FALSE, store |-> EmptyUsage],
           verdicts |-> <<>>]

\* a save_data call at position p has failed
SaveFailed(h, p) ==
    IF p \in {"ps_open", "ps_dump"} THEN [h EXCEPT !.psFailed = TRUE] ELSE h

\* the json.dump of a save_data call at position q has written the store u
SaveWritten(h, q, u) ==
    [h EXCEPT !.flushed = [done |-> TRUE, store |-> u],
              !.sdWritten = @ \/ q = "sd_dump"]

Recorded(h, game) ==
    [h EXCEPT !.nrec = @ + 1, !.recs = @ + 1,
              !.misfiled = @ \/ Some(game) # h.owner]

\* the observed run after a tick at time t that observed w
NextRun(h, w, t, u) ==
    IF ~is_game(w) THEN NoRun
    ELSE IF h.run.title = w THEN h.run
    ELSE [title |-> w, since |-> t, usage |-> u, nrec |-> h.nrec,
          fromIdle |-> ~h.run.title.some]

-----------------------------------------------------------------------------
(* __init__ *)

\* files found at process start by the tracker: none, or a document
\* written by an earlier run
StartFiles ==
    { MissingFile,
      ObjectFile(<<DateEntry(DateOf(StartClock), <<Item(TitleDota, Num(120))>>)>>) }

Init ==
    /\ pc = "load"
    /\ clock = StartClock
    /\ disk \in StartFiles
    /\ usage = EmptyUsage
    /\ current_game = NoTitle
    /\ start_time = None
    /\ window = NoTitle
    /\ now = None
    /\ last_save = None
    /\ interrupted = FALSE
    /\ pre = NoPre
    /\ hist = [NoHist EXCEPT !.file0 = disk, !.t0 = StartClock]

\* self.load_data() at position p, continuing at next
LoadData(p, next) ==
    /\ pc = p
    /\ usage' = load_data(usage, disk)
    /\ pc' = next
    /\ UNCHANGED <<clock, disk, current_game, start_time, window, now,
                   last_save, interrupted, pre, hist>>

-----------------------------------------------------------------------------
(* save_data, called at position p (open), q (dump), returning to next *)

\* a save_data without its except clause: a failed open ends the process
SaveOpen_propagate(p, q, next) ==
    /\ pc = p
    /\ LET h == IF p = "sd_open"
                THEN [hist EXCEPT !.sdSaves = @ + 1] ELSE hist
       IN  \/ disk' = GarbageFile /\ pc' = q /\ hist' = h
           \/ disk' = disk /\ pc' = "died" /\ hist' = SaveFailed(h, p)
    /\ UNCHANGED <<clock, usage, current_game, start_time, window, now,
                   last_save, interrupted, pre>>

\* open(self.data_file, 'w') truncates the file, or raises and the except
\* clause returns
SaveOpen(p, q, next) ==
    /\ pc = p
    /\ LET h == IF p = "sd_open"
                THEN [hist EXCEPT !.sdSaves = @ + 1] ELSE hist
       IN  \/ disk' = GarbageFile /\ pc' = q /\ hist' = h
           \/ disk' = disk /\ pc' = next /\ hist' = SaveFailed(h, p)
    /\ UNCHANGED <<clock, usage, current_game, start_time, window, now,
                   last_save, interrupted, pre>>

\* json.dump(self.usage, f) writes the document, or raises part way
SaveDump(q, next) ==
    /\ pc = q
    /\ \/ disk' = Dump(usage) /\ hist' = SaveWritten(hist, q, usage)
       \/ disk' = GarbageFile /\ hist' = SaveFailed(hist, q)
    /\ pc' = next
    /\ UNCHANGED <<clock, usage, current_game, start_time, window, now,
                   last_save, interrupted, pre>>

-----------------------------------------------------------------------------
(* track *)

InHorizon(t) == t <= hist.t0 + Horizon

\* line 67: last_save = time.time()
TrackStart ==
    /\ pc = "start"
    /\ last_save' = Some(clock)
    /\ pc' = "observe"
    /\ UNCHANGED <<clock, disk, usage, current_game, start_time, window, now,
                   interrupted, pre, hist>>

\* line 71: current_window = self.get_active_window()
Observe ==
    /\ pc = "observe"
    /\ \E w \in Observations :
          /\ (is_game(w) /\ w # current_game) =>
                (hist.opens < MaxOpens /\ clock <= hist.t0 + OpenUntil)
          /\ window' = w
    /\ pre' = Snapshot
    /\ pc' = "now"
    /\ UNCHANGED <<clock, disk, usage, current_game, start_time, now, last_save,
                   interrupted, hist>>

\* the test of lines 77, 87 and 127
SessionOpen == TruthyStr(current_game) /\ TruthyNum(start_time)

\* a loop without the test of line 75: every tick on a game title closes
\* the session and opens a new one
Classify_nocompare ==
    /\ pc = "now"
    /\ now' = Some(clock)
    /\ pc' = IF is_game(window)
             THEN IF SessionOpen THEN "sw_record" ELSE "sw_setgame"
             ELSE IF SessionOpen THEN "cl_record" ELSE "autosave"
    /\ hist' = [hist EXCEPT !.run = NextRun(hist, window, clock, usage)]
    /\ UNCHANGED <<clock, disk, usage, current_game, start_time, window,
                   last_save, interrupted, pre>>

\* line 72: now = time.time(), and the tests of lines 74, 75, 77 and 87
Classify ==
    /\ pc = "now"
    /\ now' = Some(clock)
    /\ pc' = IF is_game(window)
             THEN IF window # current_game
                  THEN IF SessionOpen THEN "sw_record" ELSE "sw_setgame"
                  ELSE "autosave"
             ELSE IF SessionOpen THEN "cl_record" ELSE "autosave"
    /\ hist' = [hist EXCEPT !.run = NextRun(hist, window, clock, usage)]
    /\ UNCHANGED <<clock, disk, usage, current_game, start_time, window,
                   last_save, interrupted, pre>>

\* duration = now - self.start_time; self.record_session(self.current_game,
\* duration): lines 78-79 at p = "sw_record", lines 88-89 at p = "cl_record"
RecordStep(p, next) ==
    /\ pc = p
    /\ IF CanAdd(usage, DateOf(clock), current_game.val)
       THEN /\ usage' = record_session(usage, clock, current_game.val,
                                       now.val - start_time.val)
            /\ hist' = Recorded(hist, current_game.val)
            /\ pc' = next
       ELSE /\ pc' = "died"
            /\ UNCHANGED <<usage, hist>>
    /\ UNCHANGED <<clock, disk, current_game, start_time, window, now,
                   last_save, interrupted, pre>>

\* line 82: self.current_game = current_window
SwitchSetGame ==
    /\ pc = "sw_setgame"
    /\ current_game' = window
    /\ pc' = "sw_setstart"
    /\ UNCHANGED <<clock, disk, usage, start_time, window, now, last_save,
                   interrupted, pre, hist>>

\* a switch that keeps the start instant of the session it closed
SwitchSetStart_keep ==
    /\ pc = "sw_setstart"
    /\ start_time' = IF start_time.some THEN start_time ELSE now
    /\ hist' = [hist EXCEPT !.recs = 0, !.owner = current_game,
                            !.opens = @ + 1]
    /\ pc' = "autosave"
    /\ UNCHANGED <<clock, disk, usage, current_game, window, now, last_save,
                   interrupted, pre>>

\* line 83: self.start_time = now
SwitchSetStart ==
    /\ pc = "sw_setstart"
    /\ start_time' = now
    /\ hist' = [hist EXCEPT !.recs = 0, !.owner = current_game,
                            !.opens = @ + 1]
    /\ pc' = "autosave"
    /\ UNCHANGED <<clock, disk, usage, current_game, window, now, last_save,
                   interrupted, pre>>

\* a close that leaves the title set
CloseClearGame_skip ==
    /\ pc = "cl_clrgame"
    /\ current_game' = current_game
    /\ pc' = "cl_clrstart"
    /\ UNCHANGED <<clock, disk, usage, start_time, window, now, last_save,
                   interrupted, pre, hist>>

\* line 91: self.current_game = None
CloseClearGame ==
    /\ pc = "cl_clrgame"
    /\ current_game' = NoTitle
    /\ pc' = "cl_clrstart"
    /\ UNCHANGED <<clock, disk, usage, start_time, window, now, last_save,
                   interrupted, pre, hist>>

\* a close that leaves the start instant set
CloseClearStart_skip ==
    /\ pc = "cl_clrstart"
    /\ start_time' = start_time
    /\ hist' = [hist EXCEPT !.recs = 0, !.owner = NoTitle]
    /\ pc' = "autosave"
    /\ UNCHANGED <<clock, disk, usage, current_game, window, now, last_save,
                   interrupted, pre>>

\* line 92: self.start_time = None
CloseClearStart ==
    /\ pc = "cl_clrstart"
    /\ start_time' = None
    /\ hist' = [hist EXCEPT !.recs = 0, !.owner = NoTitle]
    /\ pc' = "autosave"
    /\ UNCHANGED <<clock, disk, usage, current_game, window, now, last_save,
                   interrupted, pre>>

\* a flush that is due as soon as 300 seconds have elapsed
SaveDue_ge == now.val - last_save.val >= SaveEvery

\* line 95: if now - last_save > 300
SaveDue == now.val - last_save.val > SaveEvery

\* lines 95-96; current_window is not read again in this iteration and is
\* forgotten, with the history of the tick
AutoSave ==
    /\ pc = "autosave"
    /\ pc' = IF SaveDue THEN "ps_open" ELSE "sleep"
    /\ window' = NoTitle
    /\ pre' = NoPre
    /\ UNCHANGED <<clock, disk, usage, current_game, start_time, now,
                   last_save, interrupted, hist>>

\* line 97: last_save = now
SetLastSave ==
    /\ pc = "set_last"
    /\ last_save' = now
    /\ pc' = "sleep"
    /\ UNCHANGED <<clock, disk, usage, current_game, start_time, window, now,
                   interrupted, pre, hist>>

\* line 99: time.sleep(15)
Sleep ==
    /\ pc = "sleep"
    /\ InHorizon(clock + SleepSecs)
    /\ clock' = clock + SleepSecs
    /\ pc' = "observe"
    /\ UNCHANGED <<disk, usage, current_game, start_time, window, now,
                   last_save, interrupted, pre, hist>>

-----------------------------------------------------------------------------
(* KeyboardInterrupt, shutdown, and the death of the process *)

\* positions inside the try block of track
TryPcs == { "observe", "now", "sw_record", "sw_setgame",
            "sw_setstart", "cl_record", "cl_clrgame", "cl_clrstart",
            "autosave", "ps_open", "ps_dump", "set_last", "sleep" }
ShutdownPcs == { "sd_check", "sd_open", "sd_dump", "sd_stats" }
FinalPcs == { "done", "killed", "died" }

\* lines 101-102: the one interrupt of a run is caught and self.shutdown()
\* is called; an interrupted sleep has lasted only part of its 15 seconds.
\* The locals of track are not read again and are forgotten.
Interrupt ==
    /\ pc \in TryPcs
    /\ ~interrupted
    /\ interrupted' = TRUE
    /\ clock' = IF pc = "sleep" /\ InHorizon(clock + SleepCut)
                THEN clock + SleepCut ELSE clock
    /\ hist' = [hist EXCEPT !.shutdowns = @ + 1]
    /\ window' = NoTitle
    /\ now' = None
    /\ last_save' = None
    /\ pre' = NoPre
    /\ pc' = "sd_check"
    /\ UNCHANGED <<disk, usage, current_game, start_time>>

\* an interrupt in __init__ or before the try statement is not caught
InterruptEarly ==
    /\ pc \in {"load", "start"}
    /\ ~interrupted
    /\ interrupted' = TRUE
    /\ pc' = "killed"
    /\ UNCHANGED <<clock, disk, usage, current_game, start_time, window, now,
                   last_save, pre, hist>>

\* a shutdown that does not record the open session
ShutdownRecord_skip ==
    /\ pc = "sd_check"
    /\ pre' = Snapshot
    /\ pc' = "sd_open"
    /\ UNCHANGED <<clock, disk, usage, current_game, start_time, window, now,
                   last_save, interrupted, hist>>

\* lines 127-129 of shutdown
ShutdownRecord ==
    /\ pc = "sd_check"
    /\ pre' = Snapshot
    /\ IF SessionOpen
       THEN IF CanAdd(usage, DateOf(clock), current_game.val)
            THEN /\ usage' = record_session(usage, clock, current_game.val,
                                            clock - start_time.val)
                 /\ hist' = Recorded(hist, current_game.val)
                 /\ pc' = "sd_open"
            ELSE /\ pc' = "died"
                 /\ UNCHANGED <<usage, hist>>
       ELSE /\ pc' = "sd_open"
            /\ UNCHANGED <<usage, hist>>
    /\ UNCHANGED <<clock, disk, current_game, start_time, window, now,
                   last_save, interrupted>>

\* lines 131-132: self.show_stats() and the last print
ShowStats ==
    /\ pc = "sd_stats"
    /\ pc' = "done"
    /\ UNCHANGED <<clock, disk, usage, current_game, start_time, window, now,
                   last_save, interrupted, pre, hist>>

\* The process can also be killed, or the machine can stop, in any state:
\* nothing more runs and the file stays as that state has it. A property of
\* the file after a crash is therefore a property of disk in every state.

-----------------------------------------------------------------------------
(* The tracker: tracker = GameTracker(); tracker.track() *)

Next ==
    \/ LoadData("load", "start")
    \/ TrackStart
    \/ Observe
    \/ Classify
    \/ RecordStep("sw_record", "sw_setgame")
    \/ SwitchSetGame
    \/ SwitchSetStart
    \/ RecordStep("cl_record", "cl_clrgame")
    \/ CloseClearGame
    \/ CloseClearStart
    \/ AutoSave
    \/ SaveOpen("ps_open", "ps_dump", "set_last")
    \/ SaveDump("ps_dump", "set_last")
    \/ SetLastSave
    \/ Sleep
    \/ Interrupt
    \/ InterruptEarly
    \/ ShutdownRecord
    \/ SaveOpen("sd_open", "sd_dump", "sd_stats")
    \/ SaveDump("sd_dump", "sd_stats")
    \/ ShowStats

Spec == Init /\ [][Next]_vars

-----------------------------------------------------------------------------
(* Load then save: tracker = GameTracker(); tracker.save_data() *)

SeqsUpTo(S, n) == UNION { [1..k -> S] : k \in 0..n }

FileDates == { DateOf(StartClock), DateOf(StartClock) + 1 }
FileTitles == { TitleSteam, TitleDota }
FileLeaves == { Num(60), Num(120), NonNum }

\* the members of one date object: distinct titles, in document order
ItemSeqs ==
    { q \in SeqsUpTo({ Item(g, l) : g \in FileTitles, l \in FileLeaves }, MaxItems) :
        \A i, j \in 1..Len(q) : i # j => q[i].game # q[j].game }

FileEntries ==
    { DateEntry(d, q) : d \in FileDates, q \in ItemSeqs }
        \cup { BadEntry(d) : d \in FileDates }

\* the files load_data may find: none, unparseable text, a document that is
\* no object, and the objects with distinct dates in document order
LoadFiles ==
    { MissingFile, GarbageFile, ArrayFile } \cup
    { ObjectFile(es) : es \in
        { q \in SeqsUpTo(FileEntries, MaxDates) :
            \A i, j \in 1..Len(q) : i # j => q[i].date # q[j].date } }

InitLoad ==
    /\ pc = "t_load"
    /\ clock = StartClock
    /\ disk \in LoadFiles
    /\ usage = EmptyUsage
    /\ current_game = NoTitle
    /\ start_time = None
    /\ window = NoTitle
    /\ now = None
    /\ last_save = None
    /\ interrupted = FALSE
    /\ pre = NoPre
    /\ hist = [NoHist EXCEPT !.file0 = disk, !.t0 = StartClock]

NextLoad ==
    \/ LoadData("t_load", "t_open")
    \/ SaveOpen("t_open", "t_dump", "t_done")
    \/ SaveDump("t_dump", "t_done")

SpecLoad == InitLoad /\ [][NextLoad]_vars

-----------------------------------------------------------------------------
(* The tracker started when time.time() reads 0 *)

InitEpoch ==
    /\ pc = "load"
    /\ clock = 0
    /\ disk \in StartFiles
    /\ usage = EmptyUsage
    /\ current_game = NoTitle
    /\ start_time = None
    /\ window = NoTitle
    /\ now = None
    /\ last_save = None
    /\ interrupted = FALSE
    /\ pre = NoPre
    /\ hist = [NoHist EXCEPT !.file0 = disk, !.t0 = 0]

SpecEpoch == InitEpoch /\ [][Next]_vars

-----------------------------------------------------------------------------
(* is_game on a title, on title.lower() and on title.upper() *)

CaseAlphabet == { "r", "i", "I", "dotless_i", "o", "t", "e", "A" }
CaseTitles == SeqsUpTo(CaseAlphabet, MaxTitleLen)

InitCase ==
    /\ pc = "c_orig"
    /\ clock = StartClock
    /\ disk = MissingFile
    /\ usage = EmptyUsage
    /\ current_game = NoTitle
    /\ start_time = None
    /\ window \in { Some(s) : s \in CaseTitles }
    /\ now = None
    /\ last_save = None
    /\ interrupted = FALSE
    /\ pre = NoPre
    /\ hist = [NoHist EXCEPT !.t0 = StartClock]

\* one call of is_game at position p, on the title s
IsGameCall(p, next, s) ==
    /\ pc = p
    /\ hist' = [hist EXCEPT !.verdicts = Append(@, is_game(Some(s)))]
    /\ pc' = next
    /\ UNCHANGED <<clock, disk, usage, current_game, start_time, window, now,
                   last_save, interrupted, pre>>

CaseOrig == IsGameCall("c_orig", "c_lower", window.val)
CaseLower == IsGameCall("c_lower", "c_upper", Lower(window.val))
CaseUpper == IsGameCall("c_upper", "c_done", Upper(window.val))

NextCase == CaseOrig \/ CaseLower \/ CaseUpper

SpecCase == InitCase /\ [][NextCase]_vars

-----------------------------------------------------------------------------
(* Properties *)

AllDates == { DateOf(StartClock), DateOf(StartClock) + 1 }
AllTitles == { TitleSteam, TitleDota, TitleNote, <<>> }

\* the store u1 is the store u0 with exactly n seconds more on leaf (d, g)
Added(u0, u1, d, g, n) ==
    \A x \in AllDates, y \in AllTitles :
        /\ Leaf(u1, x, y).t = "num"
        /\ Leaf(u1, x, y).v =
               Leaf(u0, x, y).v + (IF x = d /\ y = g THEN n ELSE 0)
        /\ HasLeaf(u1, x, y) <=> (HasLeaf(u0, x, y) \/ (x = d /\ y = g))

\* the state machine part of a tick (lines 71-92) has run to its end
TickDone == pc = "autosave" /\ pre.set
WasActive == TruthyStr(pre.game) /\ TruthyNum(pre.start)

\* C1: a tick that finds the session Active(A, s) and observes a game title
\* B # A adds exactly now - s to today's leaf of A and leaves the session
\* Active(B, now): the interval recorded for A ends at the instant the
\* interval of B starts.
C1_SwitchClosesAndOpens ==
    (TickDone /\ WasActive /\ is_game(window) /\ window # pre.game)
    => /\ Added(pre.usage, usage, DateOf(now.val), pre.game.val,
                now.val - pre.start.val)
       /\ current_game = window
       /\ start_time = now

C1_Witness ==
    /\ TickDone /\ WasActive
    /\ pre.game = Some(TitleDota) /\ window = Some(TitleSteam)
    /\ HasLeaf(pre.usage, DateOf(now.val), TitleDota)
    /\ current_game = Some(TitleSteam)
    /\ now.val - pre.start.val = SleepSecs

\* C2: a tick that finds the session Active(t, s) and observes no game (a
\* title without keyword, an empty title, or None from a failed query) adds
\* exactly now - s to today's leaf of t and leaves the session Idle; no
\* exception ends the loop.
C2_NonGameCloses ==
    /\ (TickDone /\ WasActive /\ ~is_game(window))
       => /\ Added(pre.usage, usage, DateOf(now.val), pre.game.val,
                   now.val - pre.start.val)
          /\ current_game = NoTitle
          /\ start_time = None
    /\ pc # "died"

C2_Witness ==
    /\ TickDone /\ WasActive
    /\ window = NoTitle
    /\ pre.game = Some(TitleSteam)
    /\ Leaf(usage, DateOf(now.val), TitleSteam).v = 3 * SleepSecs
    /\ current_game = NoTitle

\* C3: when a game title is first observed after a tick without game at
\* t_open, is observed on every following tick, and a tick at t_close then
\* observes no game, the store at t_close is the store of t_open with
\* exactly one record more, of t_close - t_open seconds on today's leaf of
\* the title; while the title is observed the session is Active(title,
\* t_open) and nothing is recorded.
C3_ContinuousSession ==
    /\ (TickDone /\ pre.run.title.some /\ pre.run.fromIdle /\ ~is_game(window))
       => /\ Added(pre.run.usage, usage, DateOf(now.val), pre.run.title.val,
                   now.val - pre.run.since)
          /\ hist.nrec = pre.run.nrec + 1
    /\ (TickDone /\ pre.run.title.some /\ pre.run.fromIdle
          /\ window = pre.run.title)
       => /\ usage = pre.run.usage
          /\ hist.nrec = pre.run.nrec
          /\ current_game = pre.run.title
          /\ start_time = Some(pre.run.since)

\* ticks [None, Steam, Steam, Note] at 0, 15, 30, 45 s on an empty store
C3_Witness ==
    /\ TickDone
    /\ hist.file0 = MissingFile
    /\ window = Some(TitleNote)
    /\ now.val = StartClock + 3 * SleepSecs
    /\ pre.run.title = Some(TitleSteam) /\ pre.run.fromIdle
    /\ pre.run.since = StartClock + SleepSecs
    /\ usage = SetLeaf(EmptyUsage, DateOf(now.val), TitleSteam, Num(30))

\* shutdown has passed its lines 127-129
AfterShutdownRecord == pc \in {"sd_open", "sd_dump", "sd_stats", "done"}

\* what the file holds, read as a store
DiskStore == load_data(EmptyUsage, disk)

\* C4: wherever in a loop iteration the termination request arrives, the
\* shutdown sequence runs exactly once and every session's interval is
\* added to the store exactly once: no start instant is recorded against
\* twice, and no record is made under another title than the one the start
\* instant was taken for.
C4_RecordedExactlyOnce ==
    /\ hist.shutdowns <= 1
    /\ pc \in ShutdownPcs \cup {"done"} => hist.shutdowns = 1
    /\ hist.recs <= 1
    /\ ~hist.misfiled

\* C5: shutdown entered in Active(t, t0) at time now adds exactly now - t0
\* to today's leaf of t; entered in Idle it leaves the store unchanged; in
\* both cases it calls save_data exactly once, after the record, so that a
\* flush that completes writes the store with the final session.
C5_ShutdownRecordsThenFlushes ==
    /\ pc = "sd_check" => hist.sdSaves = 0
    /\ AfterShutdownRecord =>
         /\ pre.set
         /\ WasActive =>
               Added(pre.usage, usage, DateOf(clock), pre.game.val,
                     clock - pre.start.val)
         /\ (pre.game = NoTitle /\ pre.start = None) => usage = pre.usage
    /\ pc \in {"sd_stats", "done"} =>
         /\ hist.sdSaves = 1
         /\ hist.sdWritten => disk = Dump(usage)

C5_Witness ==
    /\ pc = "done"
    /\ hist.sdWritten
    /\ pre.game = Some(TitleSteam)
    /\ clock - pre.start.val = SleepSecs + SleepCut
    /\ Leaf(DiskStore, DateOf(clock), TitleSteam).v = SleepSecs + SleepCut

\* C6: once shutdown has recorded the open session, the session is Idle
\* (no title, no start instant), before the flush and in the final state.
C6_IdleAfterShutdown ==
    (AfterShutdownRecord /\ pre.set /\ WasActive)
    => (current_game = NoTitle /\ start_time = None)

\* C7: if the process stops without shutdown, the file lacks at most time
\* of the one session that is open: every second recorded for a closed
\* session is in the file.
C7_CrashLosesOnlyOpenSession ==
    (pc \in TryPcs \ {"ps_open", "ps_dump"} /\ SessionOpen /\ hist.recs = 0)
    => \A d \in AllDates, g \in AllTitles :
          Leaf(DiskStore, d, g).v >= Leaf(usage, d, g).v

WellFormed(file) ==
    /\ file.kind = "object"
    /\ \A i \in 1..Len(file.entries) :
          /\ file.entries[i].obj
          /\ \A j \in 1..Len(file.entries[i].items) :
                file.entries[i].items[j].val.t = "num"

\* the date keys, title keys and leaf values of a well-formed document
DocMap(file) ==
    LET es == file.entries
        entry(d) == es[CHOOSE i \in 1..Len(es) : es[i].date = d]
        leaves(its) ==
            [g \in { its[j].game : j \in 1..Len(its) } |->
                its[CHOOSE j \in 1..Len(its) : its[j].game = g].val]
    IN  [d \in { es[i].date : i \in 1..Len(es) } |-> leaves(entry(d).items)]

\* C9: loading a file that is corrupt or structurally invalid (unparseable
\* text, or a document that is no object of objects of numbers) leaves the
\* store empty, and no error leaves load_data.
C9_InvalidLoadsEmpty ==
    /\ (pc = "t_open" /\ hist.file0.kind # "missing" /\ ~WellFormed(hist.file0))
       => usage = EmptyUsage
    /\ pc # "died"

\* C10: for every well-formed document, load followed by a save that
\* completes writes a document with the same date keys, title keys and
\* leaf values.
C10_LoadSaveRoundTrip ==
    (pc = "t_done" /\ WellFormed(hist.file0) /\ disk.kind = "object")
    => DocMap(disk) = DocMap(hist.file0)

\* C11: at every instant, a crash or a termination request in the middle
\* of a save included, the file holds the complete previous document or the
\* complete new one: never an empty, truncated or half-written document.
C11_FileAlwaysComplete ==
    disk = hist.file0
    \/ (hist.flushed.done /\ disk = Dump(hist.flushed.store))

SavePcs == {"ps_open", "ps_dump", "sd_open", "sd_dump"}

\* C12: a save that fails changes neither the store nor the session and
\* does not end the loop (a failed periodic save continues at line 97);
\* the next flush that completes, periodic or at shutdown, writes the whole
\* store: what was recorded before the failure and what was recorded since.
C12_FailedSaveIsNotFatal ==
    [][ /\ pc \in SavePcs =>
             /\ usage' = usage
             /\ current_game' = current_game
             /\ start_time' = start_time
             /\ pc' # "died"
        /\ (pc \in {"ps_open", "ps_dump"} /\ ~hist.psFailed /\ hist'.psFailed)
             => pc' = "set_last"
        /\ (pc \in {"ps_dump", "sd_dump"} /\ hist'.flushed # hist.flushed)
             => disk' = Dump(usage') /\ hist'.flushed.store = usage'
      ]_vars

\* the periodic save failed; shutdown then recorded the open session and
\* its save wrote the store
C12_Witness ==
    /\ pc = "done"
    /\ hist.psFailed
    /\ hist.sdWritten
    /\ pre.set /\ WasActive
    /\ disk = Dump(usage)
    /\ Leaf(DiskStore, DateOf(clock), pre.game.val).v >= SaveEvery

\* C13: a record_session(title, d) call adds exactly d to today's leaf of
\* title, from 0 when the leaf is absent, and changes no other leaf; after
\* load_data nothing else changes the store. A leaf loaded for an earlier
\* date is therefore not touched by a record of a later date.
C13_RecordAddsToOneLeaf ==
    [][ (usage' # usage /\ pc # "load") =>
          /\ pc \in {"sw_record", "cl_record", "sd_check"}
          /\ Added(usage, usage', DateOf(clock), current_game.val,
                   (IF pc = "sd_check" THEN clock ELSE now.val)
                       - start_time.val)
      ]_vars

\* {day 0: {Dota: 120}} loaded, 60 s of Dota recorded on day 1, flushed
C13_Witness ==
    /\ pc = "done"
    /\ hist.sdWritten
    /\ hist.file0 # MissingFile
    /\ DateOf(clock) = DateOf(StartClock) + 1
    /\ DiskStore = SetLeaf(SetLeaf(EmptyUsage, DateOf(StartClock), TitleDota,
                                   Num(120)),
                           DateOf(StartClock) + 1, TitleDota, Num(60))

\* the session found by the operation was opened on the day before day d
OpenedDayBefore(d) ==
    WasActive /\ (pre.start.val \div DayLen) + 1 = d

\* C14: a session opened on day D and closed on day D+1, by a non-game tick,
\* a switch or shutdown, adds its whole duration to the leaf of its title
\* under D+1 and changes no leaf under D.
C14_RecordDatedAtClose ==
    /\ (TickDone /\ OpenedDayBefore(now.val \div DayLen) /\ window # pre.game)
       => /\ Added(pre.usage, usage, now.val \div DayLen, pre.game.val,
                   now.val - pre.start.val)
          /\ \A g \in AllTitles :
                 Leaf(usage, (now.val \div DayLen) - 1, g) =
                     Leaf(pre.usage, (now.val \div DayLen) - 1, g)
    /\ (AfterShutdownRecord /\ OpenedDayBefore(clock \div DayLen))
       => /\ Added(pre.usage, usage, clock \div DayLen, pre.game.val,
                   clock - pre.start.val)
          /\ \A g \in AllTitles :
                 Leaf(usage, (clock \div DayLen) - 1, g) =
                     Leaf(pre.usage, (clock \div DayLen) - 1, g)

\* Steam opened 30 s before midnight and closed 15 s after it
C14_Witness ==
    /\ TickDone /\ OpenedDayBefore(now.val \div DayLen)
    /\ pre.game = Some(TitleSteam) /\ ~is_game(window)
    /\ pre.start.val = StartClock
    /\ now.val - pre.start.val = 3 * SleepSecs
    /\ Leaf(usage, now.val \div DayLen, TitleSteam) = Num(3 * SleepSecs)
    /\ ~HasLeaf(usage, (now.val \div DayLen) - 1, TitleSteam)

\* C15: from a well-formed file (or none), every leaf of the store is a
\* number >= 0 in every state, and from one state to the next no leaf
\* disappears and no leaf value decreases.
C15_LeavesGrow ==
    [][ \A d \in AllDates, g \in AllTitles :
          /\ Leaf(usage', d, g).t = "num"
          /\ Leaf(usage', d, g).v >= 0
          /\ HasLeaf(usage, d, g) =>
                /\ HasLeaf(usage', d, g)
                /\ Leaf(usage', d, g).v >= Leaf(usage, d, g).v
      ]_vars

\* the loaded leaf of Dota has grown and a leaf of Steam has been added
C15_Witness ==
    /\ pc = "sleep"
    /\ hist.file0 # MissingFile
    /\ Leaf(usage, DateOf(StartClock), TitleDota).v
           > Leaf(load_data(EmptyUsage, hist.file0), DateOf(StartClock),
                  TitleDota).v
    /\ \E d \in AllDates : HasLeaf(usage, d, TitleSteam)

\* the titles of Observations that hold a keyword
GameTitles == { TitleSteam, TitleDota }

\* C16: from an empty store, every title key of the store is a title that
\* was classified as a game; a title without keyword, the empty title and a
\* failed observation never become keys and never are the current session.
C16_OnlyGamesTracked ==
    hist.file0 = MissingFile =>
        /\ \A d \in DOMAIN usage : DOMAIN usage[d] \subseteq GameTitles
        /\ current_game \in {NoTitle} \cup { Some(g) : g \in GameTitles }
        /\ hist.owner \in {NoTitle} \cup { Some(g) : g \in GameTitles }

\* ticks ending in Note: Steam is a key, Note holds no session
C16_Witness ==
    /\ TickDone
    /\ hist.file0 = MissingFile
    /\ window = Some(TitleNote)
    /\ pre.game = NoTitle
    /\ current_game = NoTitle
    /\ \E d \in DOMAIN usage : DOMAIN usage[d] = {TitleSteam}

\* C17: for every title over the alphabet, is_game gives one verdict for
\* the title, for its lower case and for its upper case.
C17_CaseInsensitive ==
    pc = "c_done" =>
        /\ hist.verdicts[1] = hist.verdicts[2]
        /\ hist.verdicts[2] = hist.verdicts[3]

\* the store of the most recent completed flush, or of the loaded document
LastFlushed ==
    IF hist.flushed.done THEN hist.flushed.store
    ELSE load_data(EmptyUsage, hist.file0)

\* C18: once the file is loaded, what the file holds is at every moment the
\* store of the most recent completed flush (the loaded document before the
\* first one), and every persisted leaf is <= the leaf in memory.
C18_DiskIsLastFlush ==
    pc \notin {"load", "killed"} =>
        /\ DiskStore = LastFlushed
        /\ \A d \in AllDates, g \in AllTitles :
               HasLeaf(DiskStore, d, g) =>
                   /\ HasLeaf(usage, d, g)
                   /\ Leaf(DiskStore, d, g).v <= Leaf(usage, d, g).v

\* C19: before each observation and on entry to the sleep, current_game is
\* None exactly when start_time is None; when both are set, current_game is
\* a non-empty title that is_game accepts and start_time is the now of the
\* tick that opened or last switched the session.
C19_SessionFieldsAgree ==
    pc \in {"observe", "sleep"} =>
        /\ (current_game = NoTitle) <=> (start_time = None)
        /\ current_game # NoTitle =>
              /\ current_game.val # <<>>
              /\ is_game(current_game)
              /\ current_game = hist.run.title
              /\ start_time = Some(hist.run.since)

\* on entry to the sleep of the tick that switched from Dota to Steam
C19_Witness ==
    /\ pc = "sleep"
    /\ current_game = Some(TitleSteam)
    /\ ~hist.run.fromIdle
    /\ start_time = now
    /\ Leaf(usage, DateOf(clock), TitleDota).v >= SleepSecs

\* the operation found a title and a start instant set, whatever its value
FoundSession == pre.game # NoTitle /\ pre.start # None

\* C20: a session is open when its title and start instant are set, for
\* every value of the start instant, 0 included: the next tick that
\* observes another title or no game, and shutdown, add now - start to
\* today's leaf of the title, and the tick leaves the observed game, or no
\* title, as current.
C20_OpenForEveryStart ==
    /\ (TickDone /\ FoundSession /\ window # pre.game)
       => /\ Added(pre.usage, usage, DateOf(now.val), pre.game.val,
                   now.val - pre.start.val)
          /\ current_game = (IF is_game(window) THEN window ELSE NoTitle)
    /\ (AfterShutdownRecord /\ FoundSession)
       => Added(pre.usage, usage, DateOf(clock), pre.game.val,
                clock - pre.start.val)

====
